---- MODULE Spec2Model ----
(***************************************************************************)
(* Model of the vision service (src/unnamed/part_002, lines 1-256) and of  *)
(* the profile store hook (lines 257-381) of the SIU face system.          *)
(*                                                                         *)
(* The promises of the async function started by loadModels are the        *)
(* records of acqs; a promise is identified by its index.  Each action is  *)
(* one synchronous run of JavaScript between two suspension points.        *)
(***************************************************************************)
EXTENDS Integers, Sequences, FiniteSets, TLC

\* ------------------------------------------------------------------------
\* Program constants and bounds
\* ------------------------------------------------------------------------
NumSources == 3          \* CONFIG.MODEL_URLS.length
MaxCalls == 2            \* loadModels calls explored
MaxExtracts == 1         \* extractFaceDescriptor calls explored
MaxProfiles == 1         \* profiles of a collection passed to detectFacesReal
MaxVectors == 1          \* descriptors of such a collection, all profiles together
MaxIds == 3              \* profiles ever registered in the store
MaxStored == 2           \* profiles held by the store at a time
MaxSamples == 2          \* descriptors of one profile of the store
MaxTasks == 2            \* detectFacesReal calls in flight
MaxFaces == 2            \* faces in one frame
Scale == 2               \* distance units that make the distance 1.0

Sources == 1..NumSources
DebounceMs == 1500       \* addLog: the debounce window in ms
LogCap == 200            \* addLog: newLogs.slice(0, 200)
MaxEvents == 3           \* addLog calls explored
MaxLoops == 2            \* runs of the effect of LiveMonitor explored
LogConfidence == 50      \* part_000 line 88: det.confidence > 50
MaxScans == 3            \* performRecognition calls past their guard explored

\* Timestamps of the logs passed to addLog, in ms: half a window, one ms less
\* than a window, a window and a window and a half after 0.
Times == {0, 750, 1499, 1500, 2250}
NoPromise == 0           \* loadingPromise = null

\* Descriptors are points of a line, their coordinates in distance units: two
\* of them are at the distance 0 or at a distance above 1.0 (1.5 with
\* Scale = 2).
Coords == {0, Scale + 1}
\* The thresholds passed to detectFacesReal, in distance units: one below, one
\* equal to and one above the distance of two different descriptors (0.5, 1.5
\* and 2.0 with Scale = 2).
Thresholds == {1, Scale + 1, Scale + 2}
\* The numbers of faces the detection of one frame can find.
FaceCounts == {0, 1}
Names == {"A", "B"}

VARIABLES
  faceapi,                 \* TRUE iff the global faceapi is defined
  isCriticalModelsLoaded,
  isDemographicsLoaded,
  faceMatcher,
  lastDescriptorCount,
  loadingPromise,          \* NoPromise or an index of acqs
  acqs,                    \* runs of the async function of loadModels
  demos,                   \* runs of loadDemographicsBackground
  calls,                   \* what each loadModels call returned
  lastWarning,             \* the error last passed to console.warn at line 92
  extracts,                \* extractFaceDescriptor calls
  profiles,                \* useFaceSystem: the profile collection
  nextId,                  \* ids handed out by uuidv4 so far
  op,                      \* the last call of a mutation of the collection
  logs,                    \* useFaceSystem: the recognition history
  events,                  \* addLog calls so far
  event,                   \* the log passed to the last addLog call
  tasks,                   \* detectFacesReal calls suspended at line 197
  refused,                 \* the last detectFacesReal call returned at line 186
  loops,                   \* LiveMonitor: the runs of the effect of line 28
  mounted,                 \* LiveMonitor: videoRef.current is set
  video,                   \* LiveMonitor: the video element
  handler,                 \* LiveMonitor: whose video.onloadedmetadata is set
  metaPending,             \* LiveMonitor: a loadedmetadata event is due
  frame,                   \* LiveMonitor: what the last completed call led to
  recognition,             \* LiveRecognition: state, refs and interval
  scans,                   \* LiveRecognition: performRecognition calls past line 62
  results                  \* the last value returned by detectFacesReal

flagVars == <<faceapi, isCriticalModelsLoaded, isDemographicsLoaded>>
loaderVars == <<flagVars, loadingPromise, acqs, demos, calls, lastWarning, extracts>>
matcherVars == <<faceMatcher, lastDescriptorCount>>
logVars == <<logs, events, event>>
storeVars == <<profiles, nextId, op, logVars>>
detectVars == <<tasks, results, refused>>
monitorVars == <<loops, mounted, video, handler, metaPending, frame>>
recogVars == <<recognition, scans>>
vars == <<loaderVars, matcherVars, storeVars, detectVars, monitorVars, recogVars>>

\* faceMatcher = null
NoMatcher == [null |-> TRUE, labeled |-> <<>>, threshold |-> 0]

Min(a, b) == IF a < b THEN a ELSE b
Max(a, b) == IF a > b THEN a ELSE b
Last(s) == s[Len(s)]
\* The sequence s without its element at the 0-based index i.
Without(s, i) == [k \in 1..(Len(s) - 1) |-> IF k <= i THEN s[k] ELSE s[k + 1]]

\* ------------------------------------------------------------------------
\* loadModels
\* ------------------------------------------------------------------------
\* The acquisition is suspended at the await of line 77.
Awaiting(a) == /\ a.status = "pending"
               /\ a.attempts # <<>>
               /\ Last(a.attempts).out = "pending"

NextUrl_Skip(a) == IF a.attempts = <<>> THEN 1 ELSE Last(a.attempts).src + 2

\* for (const url of CONFIG.MODEL_URLS): the url of the next iteration.
NextUrl(a) == IF a.attempts = <<>> THEN 1 ELSE Last(a.attempts).src + 1

\* The urls the loop has still to try.
Remaining(a) == Max(0, NumSources + 1 - NextUrl(a))

MarkLast(a, out) ==
  [a EXCEPT !.attempts[Len(a.attempts)].out = out]

CatchError_Rethrow(a) == [MarkLast(a, "failed") EXCEPT !.status = "rejected"]

\* try { ... } catch (error) { console.warn(...) }, lines 73 and 91-94: the
\* error of the attempt is absorbed and the loop goes on.
CatchError(a) == MarkLast(a, "failed")

\* The loop of the async function from its current iteration up to the next
\* suspension or to its end (lines 97-99); the load calls of lines 78-80
\* throw for the next t urls.
RECURSIVE RunLoop(_, _)
RunLoop(a, t) ==
  LET k == NextUrl(a) IN
  IF a.status # "pending" THEN a
  ELSE IF k > NumSources THEN [a EXCEPT !.status = "false"]
  ELSE LET b == [a EXCEPT !.attempts = Append(@, [src |-> k, out |-> "pending"])]
       IN IF t > 0 THEN RunLoop(CatchError(b), t - 1) ELSE b

\* The run has executed loadingPromise = null (line 98).
Exhausted(a) == a.status = "false"

Return(by, kind, val, id) ==
  calls' = Append(calls, [by |-> by, kind |-> kind, val |-> val, id |-> id])

LoadModelsBody_NoCache(by) ==
  /\ Len(calls) < MaxCalls
  /\ IF ~faceapi
     THEN /\ Return(by, "value", FALSE, NoPromise)
          /\ UNCHANGED <<loadingPromise, acqs, lastWarning>>
     ELSE \E t \in 0..NumSources :
            LET a == RunLoop([attempts |-> <<>>, status |-> "pending"], t)
                id == Len(acqs) + 1
            IN /\ acqs' = Append(acqs, a)
               /\ loadingPromise' = id
               /\ lastWarning' = IF t > 0 THEN "throw" ELSE lastWarning
               /\ Return(by, "shared", FALSE, id)

LoadModelsBody_NoDedup(by) ==
  /\ Len(calls) < MaxCalls
  /\ IF ~faceapi
     THEN /\ Return(by, "value", FALSE, NoPromise)
          /\ UNCHANGED <<loadingPromise, acqs, lastWarning>>
     ELSE IF isCriticalModelsLoaded
     THEN /\ Return(by, "value", TRUE, NoPromise)
          /\ UNCHANGED <<loadingPromise, acqs, lastWarning>>
     ELSE \E t \in 0..NumSources :
            LET a == RunLoop([attempts |-> <<>>, status |-> "pending"], t)
                id == Len(acqs) + 1
            IN /\ acqs' = Append(acqs, a)
               /\ loadingPromise' = id
               /\ lastWarning' = IF t > 0 THEN "throw" ELSE lastWarning
               /\ Return(by, "shared", FALSE, id)

\* The body of loadModels (lines 57-103) for a caller `by`.
LoadModelsBody(by) ==
  /\ Len(calls) < MaxCalls
  /\ IF ~faceapi
     THEN /\ Return(by, "value", FALSE, NoPromise)
          /\ UNCHANGED <<loadingPromise, acqs, lastWarning>>
     ELSE IF isCriticalModelsLoaded
     THEN /\ Return(by, "value", TRUE, NoPromise)
          /\ UNCHANGED <<loadingPromise, acqs, lastWarning>>
     ELSE IF loadingPromise # NoPromise
     THEN /\ Return(by, "shared", FALSE, loadingPromise)
          /\ UNCHANGED <<loadingPromise, acqs, lastWarning>>
     ELSE \E t \in 0..NumSources :
            \* The async function runs up to its first await, and only then
            \* line 71 assigns its promise to loadingPromise: the assignment
            \* of line 98, if that first run reaches it, is overwritten.
            LET a == RunLoop([attempts |-> <<>>, status |-> "pending"], t)
                id == Len(acqs) + 1
            IN /\ acqs' = Append(acqs, a)
               /\ loadingPromise' = id
               /\ lastWarning' = IF t > 0 THEN "throw" ELSE lastWarning
               /\ Return(by, "shared", FALSE, id)

LoadModels ==
  /\ LoadModelsBody("app")
  /\ UNCHANGED <<recogVars, monitorVars, flagVars, demos, extracts, matcherVars, storeVars, detectVars>>

\* What the promise returned to call c has settled to ("pending" if not yet).
Resolution(c) ==
  IF c.kind = "value" THEN (IF c.val THEN "true" ELSE "false")
  ELSE acqs[c.id].status

\* withTimeout rejects with err; the catch of line 91 continues with the next
\* url, up to the next await or to the end of the loop.
AttemptFails(i, err) ==
  /\ i \in DOMAIN acqs
  /\ Awaiting(acqs[i])
  /\ \E t \in 0..Remaining(acqs[i]) :
       LET a == RunLoop(CatchError(acqs[i]), t)
       IN /\ acqs' = [acqs EXCEPT ![i] = a]
          /\ loadingPromise' = IF Exhausted(a) THEN NoPromise ELSE loadingPromise
          /\ lastWarning' = IF t > 0 THEN "throw" ELSE err
  /\ UNCHANGED <<recogVars, monitorVars, flagVars, demos, calls, extracts, matcherVars, storeVars,
                 detectVars>>

\* One of the loads of lines 78-80 rejects: withTimeout, lines 46-49.
CriticalRejected(i) == AttemptFails(i, "reject")

TimeoutFires_NoTimer(i) == AttemptFails(i, "timeout") /\ FALSE

\* The timer of withTimeout fires first: lines 38-40.
TimeoutFires(i) == AttemptFails(i, "timeout")

\* The loads of attempt k of acquisition i resolve after the attempt has
\* ended, by its timeout or by the rejection of one of them: the then of
\* lines 42-45 clears a timer that has fired and resolves a promise that is
\* settled, which does nothing.  The attempt is marked as answered.
LateAnswer(i, k) ==
  /\ i \in DOMAIN acqs
  /\ k \in DOMAIN acqs[i].attempts
  /\ acqs[i].attempts[k].out = "failed"
  /\ acqs' = [acqs EXCEPT ![i].attempts[k].out = "late"]
  /\ UNCHANGED <<flagVars, loadingPromise, demos, calls, lastWarning, extracts>>
  /\ UNCHANGED <<recogVars, monitorVars, matcherVars, storeVars, detectVars>>

Succeed_AwaitDemo(a) == MarkLast(a, "ok")

\* Lines 83-90: the attempt succeeded and the async function returns true.
Succeed(a) == [MarkLast(a, "ok") EXCEPT !.status = "true"]

CriticalLoaded_FirstUrl(i) ==
  /\ i \in DOMAIN acqs
  /\ Awaiting(acqs[i])
  /\ isCriticalModelsLoaded' = TRUE
  /\ \E d \in {"pending", "failed"} :
       /\ demos' = Append(demos, [src |-> 1, state |-> d])
       /\ isDemographicsLoaded' = IF d = "failed" THEN FALSE ELSE isDemographicsLoaded
  /\ acqs' = [acqs EXCEPT ![i] = Succeed(acqs[i])]
  /\ UNCHANGED <<recogVars, monitorVars, faceapi, loadingPromise, calls, lastWarning, extracts,
                 matcherVars, storeVars, detectVars>>

\* withTimeout resolves (lines 42-45): lines 83-90, with the synchronous start
\* of loadDemographicsBackground(url) up to its await (a throw of the load
\* calls of lines 109-110 lands in its own catch, lines 114-117).
CriticalLoaded(i) ==
  /\ i \in DOMAIN acqs
  /\ Awaiting(acqs[i])
  /\ isCriticalModelsLoaded' = TRUE
  /\ \E d \in {"pending", "failed"} :
       /\ demos' = Append(demos, [src |-> Last(acqs[i].attempts).src, state |-> d])
       /\ isDemographicsLoaded' = IF d = "failed" THEN FALSE ELSE isDemographicsLoaded
  /\ acqs' = [acqs EXCEPT ![i] = Succeed(acqs[i])]
  /\ UNCHANGED <<recogVars, monitorVars, faceapi, loadingPromise, calls, lastWarning, extracts,
                 matcherVars, storeVars, detectVars>>

\* loadDemographicsBackground, lines 112-113.
DemographicsLoaded(j) ==
  /\ j \in DOMAIN demos
  /\ demos[j].state = "pending"
  /\ demos' = [demos EXCEPT ![j].state = "ok"]
  /\ isDemographicsLoaded' = TRUE
  /\ UNCHANGED <<recogVars, monitorVars, faceapi, isCriticalModelsLoaded, loadingPromise, acqs, calls,
                 lastWarning, extracts, matcherVars, storeVars, detectVars>>

DemographicsFailed_Retries(j) ==
  /\ j \in DOMAIN demos
  /\ demos[j].state = "pending"
  /\ demos' = Append([demos EXCEPT ![j].state = "failed"],
                     [src |-> demos[j].src, state |-> "pending"])
  /\ isDemographicsLoaded' = FALSE
  /\ UNCHANGED <<recogVars, monitorVars, faceapi, isCriticalModelsLoaded, loadingPromise, acqs, calls,
                 lastWarning, extracts, matcherVars, storeVars, detectVars>>

DemographicsFailed_ResetsAll(j) ==
  /\ j \in DOMAIN demos
  /\ demos[j].state = "pending"
  /\ demos' = [demos EXCEPT ![j].state = "failed"]
  /\ isDemographicsLoaded' = FALSE
  /\ isCriticalModelsLoaded' = FALSE
  /\ UNCHANGED <<recogVars, monitorVars, faceapi, loadingPromise, acqs, calls, lastWarning, extracts,
                 matcherVars, storeVars, detectVars>>

\* loadDemographicsBackground, lines 114-117.
DemographicsFailed(j) ==
  /\ j \in DOMAIN demos
  /\ demos[j].state = "pending"
  /\ demos' = [demos EXCEPT ![j].state = "failed"]
  /\ isDemographicsLoaded' = FALSE
  /\ UNCHANGED <<recogVars, monitorVars, faceapi, isCriticalModelsLoaded, loadingPromise, acqs, calls,
                 lastWarning, extracts, matcherVars, storeVars, detectVars>>

\* ------------------------------------------------------------------------
\* extractFaceDescriptor
\* ------------------------------------------------------------------------
\* Lines 123-127 up to the await of loadModels, or lines 129-143 when the
\* critical tier is ready (the detection yields a descriptor or nothing).
ExtractFaceDescriptor ==
  /\ Len(extracts) < MaxExtracts
  /\ IF ~isCriticalModelsLoaded
     THEN /\ LoadModelsBody("extract")
          /\ extracts' = Append(extracts, [call |-> Len(calls) + 1, res |-> "wait"])
     ELSE /\ \E r \in {"null", "descriptor"} :
               extracts' = Append(extracts, [call |-> 0, res |-> r])
          /\ UNCHANGED <<loadingPromise, acqs, calls, lastWarning>>
  /\ UNCHANGED <<recogVars, monitorVars, flagVars, demos, matcherVars, storeVars, detectVars>>

\* Line 125 resumes with the result of loadModels: line 126, or lines 129-143.
ExtractResume(e) ==
  /\ e \in DOMAIN extracts
  /\ extracts[e].res = "wait"
  /\ LET r == Resolution(calls[extracts[e].call])
     IN /\ r \in {"true", "false"}
        /\ \E x \in (IF r = "false" THEN {"null"} ELSE {"null", "descriptor"}) :
             extracts' = [extracts EXCEPT ![e].res = x]
  /\ UNCHANGED <<recogVars, monitorVars, flagVars, loadingPromise, acqs, demos, calls, lastWarning,
                 matcherVars, storeVars, detectVars>>

\* ------------------------------------------------------------------------
\* useFaceSystem: the profile collection
\* ------------------------------------------------------------------------
\* The number of descriptors of the profile id, -1 if there is none.
Samples(id) ==
  IF \E i \in DOMAIN profiles : profiles[i].id = id
  THEN Len(profiles[CHOOSE i \in DOMAIN profiles : profiles[i].id = id].descriptors)
  ELSE -1

\* A call of a mutation, as the caller sees it: what was called on which
\* profile, with which index, how many descriptors the profile had, and
\* whether the call raised an error (none of lines 298-351 does: the updaters
\* passed to setProfiles cannot throw, and nothing is returned or reported).
Mutation(kind, id, index) ==
  [kind |-> kind, id |-> id, index |-> index, len |-> Samples(id), error |-> FALSE]

RECURSIVE DescriptorCount(_)
\* profiles.reduce((acc, p) => acc + p.descriptors.length, 0)
DescriptorCount(ps) ==
  IF ps = <<>> THEN 0
  ELSE Len(Head(ps).descriptors) + DescriptorCount(Tail(ps))

\* addProfile(name, image, descriptor?): ds is <<>> or <<descriptor>>.  An
\* image is modelled by what was extracted from it: <<d>> for a picture
\* that gave the descriptor d, <<>> for a picture that gave none.
AddProfile(name, image, ds) ==
  /\ Len(profiles) < MaxStored
  /\ nextId < MaxIds
  /\ nextId' = nextId + 1
  /\ profiles' = Append(profiles, [id |-> nextId + 1, name |-> name,
                                   images |-> <<image>>, descriptors |-> ds])
  /\ op' = Mutation("addProfile", nextId + 1, 0)
  /\ UNCHANGED <<recogVars, monitorVars, logVars, loaderVars, matcherVars, detectVars>>

DeleteProfile_ByPosition(id) ==
  /\ profiles' = Without(profiles, id - 1)
  /\ op' = Mutation("deleteProfile", id, 0)
  /\ UNCHANGED <<recogVars, monitorVars, nextId, logVars, loaderVars, matcherVars, detectVars>>

DeleteProfile(id) ==
  /\ profiles' = SelectSeq(profiles, LAMBDA p : p.id # id)
  /\ op' = Mutation("deleteProfile", id, 0)
  /\ UNCHANGED <<recogVars, monitorVars, nextId, logVars, loaderVars, matcherVars, detectVars>>

AddSampleToProfile_Overwrites(id, image, d) ==
  /\ \A i \in DOMAIN profiles :
       profiles[i].id = id => Len(profiles[i].images) < MaxSamples
  /\ profiles' = [i \in DOMAIN profiles |->
                    IF profiles[i].id = id
                    THEN [profiles[i] EXCEPT !.images = <<image>>,
                                             !.descriptors = <<d>>]
                    ELSE profiles[i]]
  /\ op' = Mutation("addSampleToProfile", id, 0)
  /\ UNCHANGED <<recogVars, monitorVars, nextId, logVars, loaderVars, matcherVars, detectVars>>

AddSampleToProfile(id, image, d) ==
  /\ \A i \in DOMAIN profiles :
       profiles[i].id = id => Len(profiles[i].images) < MaxSamples
  /\ profiles' = [i \in DOMAIN profiles |->
                    IF profiles[i].id = id
                    THEN [profiles[i] EXCEPT !.images = Append(@, image),
                                             !.descriptors = Append(@, d)]
                    ELSE profiles[i]]
  /\ op' = Mutation("addSampleToProfile", id, 0)
  /\ UNCHANGED <<recogVars, monitorVars, nextId, logVars, loaderVars, matcherVars, detectVars>>

Splice1_Last(s, index) ==
  LET len == Len(s)
      start == IF index < 0 THEN Max(len + index, 0) ELSE Min(index, len)
  IN IF start < len
     THEN SubSeq(s, 1, len - 1)
     ELSE s

\* Array.prototype.splice(index, 1) on a copy; index is 0-based, a negative
\* index counts from the end, an index past the end removes nothing.
Splice1(s, index) ==
  LET len == Len(s)
      start == IF index < 0 THEN Max(len + index, 0) ELSE Min(index, len)
  IN IF start < len
     THEN SubSeq(s, 1, start) \o SubSeq(s, start + 2, len)
     ELSE s

RemoveSampleFromProfile(id, index) ==
  /\ profiles' = [i \in DOMAIN profiles |->
                    IF profiles[i].id = id
                    THEN [profiles[i] EXCEPT !.images = Splice1(@, index),
                                             !.descriptors = Splice1(@, index)]
                    ELSE profiles[i]]
  /\ op' = Mutation("removeSampleFromProfile", id, index)
  /\ UNCHANGED <<recogVars, monitorVars, nextId, logVars, loaderVars, matcherVars, detectVars>>

\* ------------------------------------------------------------------------
\* useFaceSystem: the recognition history
\* ------------------------------------------------------------------------
\* newLogs.slice(0, 200)
Slice(s, n) == SubSeq(s, 1, Min(Len(s), n))

Debounce_Inclusive(prev, log) ==
  IF /\ Len(prev) > 0
     /\ prev[1].personName = log.personName
     /\ log.timestamp - prev[1].timestamp <= DebounceMs
  THEN prev
  ELSE Slice(<<log>> \o prev, LogCap)

Debounce_NoSlice(prev, log) ==
  IF /\ Len(prev) > 0
     /\ prev[1].personName = log.personName
     /\ log.timestamp - prev[1].timestamp < DebounceMs
  THEN prev
  ELSE <<log>> \o prev

Debounce_Forward(prev, log) ==
  IF /\ Len(prev) > 0
     /\ prev[1].personName = log.personName
     /\ log.timestamp - prev[1].timestamp < DebounceMs
     /\ log.timestamp >= prev[1].timestamp
  THEN prev
  ELSE Slice(<<log>> \o prev, LogCap)

\* The updater addLog passes to setLogs, lines 357-367.
Debounce(prev, log) ==
  IF /\ Len(prev) > 0
     /\ prev[1].personName = log.personName
     /\ log.timestamp - prev[1].timestamp < DebounceMs
  THEN prev
  ELSE Slice(<<log>> \o prev, LogCap)

\* addLog(log); the caller gave the log a fresh id (uuidv4).
AddLog(name, time) ==
  /\ events < MaxEvents
  /\ LET log == [id |-> LogCap + events + 1, personName |-> name,
                 timestamp |-> time]
     IN /\ logs' = Debounce(logs, log)
        /\ event' = log
  /\ events' = events + 1
  /\ UNCHANGED <<recogVars, monitorVars, profiles, nextId, op, loaderVars, matcherVars, detectVars>>

\* ------------------------------------------------------------------------
\* updateFaceMatcher and faceapi.FaceMatcher
LabeledDescriptors_KeepsEmpty(ps) ==
  [i \in DOMAIN ps |-> [label |-> ps[i].name, descriptors |-> ps[i].descriptors]]

\* ------------------------------------------------------------------------
\* Lines 158-166: one LabeledFaceDescriptors per profile that has a vector.
\* The stored numbers were produced by Array.from(Float32Array) (part_001,
\* line 307), so new Float32Array(d) gives back the same values.
LabeledDescriptors(ps) ==
  LET sel == SelectSeq(ps, LAMBDA p : Len(p.descriptors) > 0)
  IN [i \in DOMAIN sel |-> [label |-> sel[i].name,
                            descriptors |-> sel[i].descriptors]]

UpdateFaceMatcher_KeepOnEmpty(ps, th) ==
  LET same == [m |-> faceMatcher, c |-> lastDescriptorCount]
      count == DescriptorCount(ps)
      lds == LabeledDescriptors(ps)
  IN IF ~faceapi \/ ~isCriticalModelsLoaded THEN same
     ELSE IF count = lastDescriptorCount /\ ~faceMatcher.null THEN same
     ELSE [m |-> IF Len(lds) > 0
                 THEN [null |-> FALSE, labeled |-> lds, threshold |-> th]
                 ELSE faceMatcher,
           c |-> count]

UpdateFaceMatcher_NoCache(ps, th) ==
  LET same == [m |-> faceMatcher, c |-> lastDescriptorCount]
      count == DescriptorCount(ps)
      lds == LabeledDescriptors(ps)
  IN IF ~faceapi \/ ~isCriticalModelsLoaded THEN same
     ELSE [m |-> IF Len(lds) > 0
                 THEN [null |-> FALSE, labeled |-> lds, threshold |-> th]
                 ELSE NoMatcher,
           c |-> count]

\* updateFaceMatcher(profiles, threshold): the new values of faceMatcher and
\* lastDescriptorCount.
UpdateFaceMatcher(ps, th) ==
  LET same == [m |-> faceMatcher, c |-> lastDescriptorCount]
      count == DescriptorCount(ps)
      lds == LabeledDescriptors(ps)
  IN IF ~faceapi \/ ~isCriticalModelsLoaded THEN same
     ELSE IF count = lastDescriptorCount /\ ~faceMatcher.null THEN same
     ELSE [m |-> IF Len(lds) > 0
                 THEN [null |-> FALSE, labeled |-> lds, threshold |-> th]
                 ELSE NoMatcher,
           c |-> count]

\* Euclidean distance of two points of the line.
Distance(a, b) == IF a > b THEN a - b ELSE b - a

RECURSIVE SumDistance(_, _)
SumDistance(q, ds) ==
  IF ds = <<>> THEN 0 ELSE Distance(Head(ds), q) + SumDistance(q, Tail(ds))

\* FaceMatcher.computeMeanDistance of face-api.js 0.22.2 (the version line 26
\* pins): the mean of the distances from the query to the descriptors of one
\* label, kept as the fraction num / den.
ComputeMeanDistance(q, ds) == [num |-> SumDistance(q, ds), den |-> Max(Len(ds), 1)]

Less(x, y) == x.num * y.den < y.num * x.den

RECURSIVE ReduceBest(_, _)
\* .reduce((best, curr) => best.distance < curr.distance ? best : curr)
ReduceBest(best, rest) ==
  IF rest = <<>> THEN best
  ELSE ReduceBest(IF Less(best.distance, Head(rest).distance) THEN best
                  ELSE Head(rest), Tail(rest))

\* FaceMatcher.matchDescriptor of face-api.js.
MatchDescriptor(m, q) ==
  LET fm == [i \in DOMAIN m.labeled |->
               [label |-> m.labeled[i].label,
                distance |-> ComputeMeanDistance(q, m.labeled[i].descriptors)]]
  IN ReduceBest(Head(fm), Tail(fm))

\* faceMatcher.findBestMatch(d.descriptor), line 210: FaceMatcher.findBestMatch
\* of face-api.js answers the label 'unknown' when the best distance is not
\* below the threshold the matcher was constructed with.
FindBestMatch(m, q) ==
  LET b == MatchDescriptor(m, q)
  IN IF b.distance.num < m.threshold * b.distance.den THEN b
     ELSE [label |-> "unknown", distance |-> b.distance]

\* ------------------------------------------------------------------------
\* detectFacesReal
\* ------------------------------------------------------------------------
Match_ByLabel(m, q, th) ==
  IF m.null
  THEN [identified |-> FALSE, name |-> "Unknown", confidence |-> 0]
  ELSE LET bestMatch == FindBestMatch(m, q)
           d == bestMatch.distance
       IN IF bestMatch.label # "unknown"
          THEN [identified |-> TRUE, name |-> bestMatch.label,
                confidence |-> (Max(0, th * d.den - d.num) * 100) \div (th * d.den)]
          ELSE [identified |-> FALSE, name |-> "Unknown",
                confidence |-> ((Scale * d.den - Min(Scale * d.den, d.num)) * 100)
                                 \div (Scale * d.den)]

Match_NoClamp(m, q, th) ==
  IF m.null
  THEN [identified |-> FALSE, name |-> "Unknown", confidence |-> 0]
  ELSE LET bestMatch == FindBestMatch(m, q)
           d == bestMatch.distance
       IN IF d.num < th * d.den
          THEN [identified |-> TRUE, name |-> bestMatch.label,
                confidence |-> (Max(0, th * d.den - d.num) * 100) \div (th * d.den)]
          ELSE [identified |-> FALSE, name |-> "Unknown",
                confidence |-> ((Scale * d.den - d.num) * 100) \div (Scale * d.den)]

\* Lines 205-219 for one detection with descriptor q.  The distance is the
\* fraction d.num / d.den; distance and threshold are in the same unit, the
\* distance 1.0 is Scale units; Math.floor of the exact quotient.
Match(m, q, th) ==
  IF m.null
  THEN [identified |-> FALSE, name |-> "Unknown", confidence |-> 0]
  ELSE LET bestMatch == FindBestMatch(m, q)
           d == bestMatch.distance
       IN IF d.num < th * d.den
          THEN [identified |-> TRUE, name |-> bestMatch.label,
                confidence |-> (Max(0, th * d.den - d.num) * 100) \div (th * d.den)]
          ELSE [identified |-> FALSE, name |-> "Unknown",
                confidence |-> ((Scale * d.den - Min(Scale * d.den, d.num)) * 100)
                                 \div (Scale * d.den)]

\* Some profile of the collection ps holds the vector q.
Holds(ps, q) ==
  \E i \in DOMAIN ps : \E j \in DOMAIN ps[i].descriptors : ps[i].descriptors[j] = q

\* No vector of the handle m is at a distance below th from q.
Far(m, q, th) ==
  \A i \in DOMAIN m.labeled : \A j \in DOMAIN m.labeled[i].descriptors :
    Distance(m.labeled[i].descriptors[j], q) >= th

\* Some profile of the collection ps has the name and at least one vector.
Listed(ps, name) ==
  \E i \in DOMAIN ps : ps[i].name = name /\ Len(ps[i].descriptors) > 0

\* The handle m is the one a build from the collection ps under th gives.
Fresh(m, ps, th) ==
  LET lds == LabeledDescriptors(ps)
  IN IF Len(lds) > 0
     THEN m = [null |-> FALSE, labeled |-> lds, threshold |-> th]
     ELSE m = NoMatcher

Returned_FlagOnly(task, m, probes, out) ==
  results' = [i \in DOMAIN out |->
                [probe |-> probes[i],
                 threshold |-> task.threshold,
                 held |-> Holds(task.profiles, probes[i]),
                 far |-> Far(m, probes[i], task.threshold),
                 stale |-> ~m.null /\ m.threshold # task.threshold,
                 count |-> DescriptorCount(task.profiles),
                 fresh |-> Fresh(m, task.profiles, task.threshold),
                 listed |-> Listed(task.profiles, out[i].name),
                 had |-> ~faceMatcher.null,
                 rebuilt |-> m # faceMatcher,
                 demo |-> task.demo,
                 attributes |-> isDemographicsLoaded,
                 identified |-> out[i].identified,
                 name |-> out[i].name,
                 confidence |-> out[i].confidence]]

\* The value returned to the caller of the call `task`: the results of lines
\* 235-248.  Each is kept with the inputs it was computed from (the probe, the
\* threshold passed) and with facts about the call: whether the collection
\* passed holds the probe, whether the handle used (m) has no vector nearer to
\* the probe than the threshold passed, whether m was constructed with another
\* threshold than the one passed, the number of vectors of the collection
\* passed, whether m is what a build from that collection gives, whether the
\* name answered is that of a profile of the collection with a vector,
\* whether there was a handle before the call, whether the call replaced
\* the handle, whether the optional tier was ready when the call built its
\* detection task (line 193), and whether the result carries age, gender and
\* expressions (lines 228-233: d.age is there exactly when line 194 ran).
Returned(task, m, probes, out) ==
  results' = [i \in DOMAIN out |->
                [probe |-> probes[i],
                 threshold |-> task.threshold,
                 held |-> Holds(task.profiles, probes[i]),
                 far |-> Far(m, probes[i], task.threshold),
                 stale |-> ~m.null /\ m.threshold # task.threshold,
                 count |-> DescriptorCount(task.profiles),
                 fresh |-> Fresh(m, task.profiles, task.threshold),
                 listed |-> Listed(task.profiles, out[i].name),
                 had |-> ~faceMatcher.null,
                 rebuilt |-> m # faceMatcher,
                 demo |-> task.demo,
                 attributes |-> task.demo /\ isDemographicsLoaded,
                 identified |-> out[i].identified,
                 name |-> out[i].name,
                 confidence |-> out[i].confidence]]

RemoveAt(s, k) == SubSeq(s, 1, k - 1) \o SubSeq(s, k + 1, Len(s))

Refused_IgnoresTier(videoOk) == ~videoOk \/ ~faceapi

\* Line 186.
Refused(videoOk) == ~isCriticalModelsLoaded \/ ~videoOk \/ ~faceapi

Classify_StaleHandle(task, n, probes) ==
  IF n = 0
  THEN /\ Returned(task, faceMatcher, <<>>, <<>>)
       /\ UNCHANGED matcherVars
  ELSE LET u == UpdateFaceMatcher(task.profiles, task.threshold)
       IN /\ faceMatcher' = u.m
          /\ lastDescriptorCount' = u.c
          /\ Returned(task, u.m, probes,
                      [i \in 1..n |-> Match(IF i = 1 THEN faceMatcher ELSE u.m,
                                            probes[i], task.threshold)])

\* Lines 198-251 for the call `task` once its n detections, with the
\* descriptors probes, have arrived.
Classify(task, n, probes) ==
  IF n = 0
  THEN /\ Returned(task, faceMatcher, <<>>, <<>>)
       /\ UNCHANGED matcherVars
  ELSE LET u == UpdateFaceMatcher(task.profiles, task.threshold)
       IN /\ faceMatcher' = u.m
          /\ lastDescriptorCount' = u.c
          /\ Returned(task, u.m, probes,
                      [i \in 1..n |-> Match(u.m, probes[i], task.threshold)])

Thrown_KeepsResults(task) ==
  /\ UNCHANGED results
  /\ \/ UNCHANGED matcherVars
     \/ LET u == UpdateFaceMatcher(task.profiles, task.threshold)
        IN /\ ~u.m.null
           /\ faceMatcher' = u.m
           /\ lastDescriptorCount' = u.c

\* Lines 197-255 for the call `task` when something throws: the detection
\* task rejects (line 197), or new FaceMatcher throws (line 169, before any
\* assignment of updateFaceMatcher), or findBestMatch throws (line 210, after
\* updateFaceMatcher has returned).  The catch of lines 252-255 returns [].
Thrown(task) ==
  /\ Returned(task, faceMatcher, <<>>, <<>>)
  /\ \/ UNCHANGED matcherVars
     \/ LET u == UpdateFaceMatcher(task.profiles, task.threshold)
        IN /\ ~u.m.null
           /\ faceMatcher' = u.m
           /\ lastDescriptorCount' = u.c

\* detectFacesReal(video, profiles, threshold) up to the await of line 197.
DetectStart(ps, th, videoOk) ==
  /\ Len(tasks) < MaxTasks
  /\ LET task == [profiles |-> ps, threshold |-> th, demo |-> isDemographicsLoaded]
     IN IF Refused(videoOk)
        THEN /\ Returned(task, faceMatcher, <<>>, <<>>)
             /\ UNCHANGED tasks
        ELSE /\ tasks' = Append(tasks, task)
             /\ UNCHANGED results
  /\ refused' = Refused(videoOk)
  /\ UNCHANGED <<recogVars, monitorVars, loaderVars, matcherVars, storeVars>>

\* The detection task of call k resolves with n detections: lines 198-251.
DetectResolves(k, n) ==
  /\ k \in DOMAIN tasks
  /\ \E probes \in [1..n -> Coords] : Classify(tasks[k], n, probes)
  /\ tasks' = RemoveAt(tasks, k)
  /\ UNCHANGED <<recogVars, monitorVars, loaderVars, storeVars, refused>>

DetectFinish(k) == \E n \in FaceCounts : DetectResolves(k, n)

\* Call k fails after its await: the catch of lines 252-255.
DetectFails(k) ==
  /\ k \in DOMAIN tasks
  /\ Thrown(tasks[k])
  /\ tasks' = RemoveAt(tasks, k)
  /\ UNCHANGED <<recogVars, monitorVars, loaderVars, storeVars, refused>>

\* A whole call of detectFacesReal whose detection task settles before any
\* other step is taken: lines 186-255.
DetectFacesReal(ps, th, videoOk) ==
  /\ tasks = <<>>
  /\ LET task == [profiles |-> ps, threshold |-> th, demo |-> isDemographicsLoaded]
     IN IF Refused(videoOk)
        THEN /\ Returned(task, faceMatcher, <<>>, <<>>)
             /\ UNCHANGED matcherVars
        ELSE \/ Thrown(task)                    \* the catch of line 252
             \/ \E n \in FaceCounts : \E probes \in [1..n -> Coords] :
                  Classify(task, n, probes)
  /\ refused' = Refused(videoOk)
  /\ UNCHANGED <<recogVars, monitorVars, loaderVars, storeVars, tasks>>

\* ------------------------------------------------------------------------
\* LiveMonitor (src/unnamed/part_000): the effect of lines 28-117
\* ------------------------------------------------------------------------
\* Every run of the effect has its own locals animationFrameId and
\* isProcessing (lines 29-33). A run is at one of:
\*   "loading"    suspended at await loadModels()              (line 37)
\*   "camera"     suspended at await getUserMedia(...)         (line 46)
\*   "metadata"   waiting for video.onloadedmetadata           (line 52)
\*   "scheduled"  a requestAnimationFrame(loop) is pending     (line 107)
\*   "detecting"  suspended at await detectFacesReal(...)      (line 81)
\*   "cancelled"  its pending frame was cancelled              (line 113)
\*   "done"       nothing of it is pending
\* stopped records that the cleanup of lines 112-116 ran for the run; real
\* records that the call in flight passed the guard of detectFacesReal.
\* The values of the threshold prop of LiveMonitor: one at which the far
\* probe is unknown and one at which it is identified.
Settings == {Scale + 1, Scale + 2}

\* The run also holds the props the closures of the run captured (profiles,
\* threshold: line 16) and what the call in flight read at lines 186 and 193.
NewLoop(ps, th) ==
  [pc |-> "loading", isProcessing |-> FALSE, stopped |-> FALSE, real |-> FALSE,
   profiles |-> ps, threshold |-> th, demo |-> FALSE]

\* The cleanup of lines 112-116 for run k: cancelAnimationFrame reaches a
\* frame that is pending and nothing else; the tracks of the stream of the
\* video element are stopped.
CleanedUp(ls, k) ==
  [ls EXCEPT ![k].stopped = TRUE,
             ![k].pc = IF @ = "scheduled" THEN "cancelled" ELSE @]

\* The run whose cleanup React calls next: the last one, unless it was
\* cleaned up already.
Active(ls) == IF ls # <<>> /\ ~ls[Len(ls)].stopped THEN {Len(ls)} ELSE {}

\* The stream after the cleanup: stopped when videoRef.current holds one.
StoppedStream(v) == [v EXCEPT !.live = FALSE]

\* The component mounts, or profiles, onLogEntry or threshold changes (the
\* dependencies of line 117): React runs the cleanup of the previous run and
\* then the effect, which calls startSystem (line 110), with the props of
\* the render: the profiles of the store and the threshold th.
RunEffect(th) ==
  /\ mounted
  /\ Len(loops) < MaxLoops
  /\ LET cleaned == IF Active(loops) = {} THEN loops
                    ELSE CleanedUp(loops, Len(loops))
     IN loops' = Append(cleaned, NewLoop(profiles, th))
  /\ video' = IF Active(loops) = {} THEN video ELSE StoppedStream(video)
  /\ UNCHANGED <<mounted, handler, metaPending, frame>>
  /\ UNCHANGED <<loaderVars, matcherVars, storeVars, detectVars, recogVars>>

\* The component unmounts: the video element is detached and the cleanup of
\* the last run is called. Whether the ref is cleared before the cleanup
\* reads it (line 114) depends on the version of React: both are explored.
Unmount ==
  /\ mounted
  /\ mounted' = FALSE
  /\ loops' = IF Active(loops) = {} THEN loops ELSE CleanedUp(loops, Len(loops))
  /\ \/ video' = video
     \/ Active(loops) # {} /\ video' = StoppedStream(video)
  /\ UNCHANGED <<handler, metaPending, frame>>
  /\ UNCHANGED <<loaderVars, matcherVars, storeVars, detectVars, recogVars>>

\* What loadModels() resolves with once the loader has settled (part_002,
\* lines 59-65).
Loaded == faceapi /\ isCriticalModelsLoaded

\* startSystem resumes from await loadModels() (lines 37-42).
ModelsLoaded(k) ==
  /\ loops[k].pc = "loading"
  /\ loops' = [loops EXCEPT ![k].pc = IF Loaded THEN "camera" ELSE "done"]
  /\ UNCHANGED <<mounted, video, handler, metaPending, frame>>
  /\ UNCHANGED <<loaderVars, matcherVars, storeVars, detectVars, recogVars>>

\* startSystem resumes from await getUserMedia (lines 46-56), or the catch of
\* lines 57-60 runs when the camera is refused.
CameraAnswered(k, granted) ==
  /\ loops[k].pc = "camera"
  /\ IF granted /\ mounted
     THEN /\ loops' = [loops EXCEPT ![k].pc = "metadata"]
          /\ video' = [live |-> TRUE, paused |-> TRUE]
          /\ handler' = k
          /\ metaPending' = TRUE
     ELSE /\ loops' = [loops EXCEPT ![k].pc = "done"]
          /\ UNCHANGED <<video, handler, metaPending>>
  /\ UNCHANGED <<mounted, frame>>
  /\ UNCHANGED <<loaderVars, matcherVars, storeVars, detectVars, recogVars>>

\* One run of loop for the run l of the effect (lines 63-108), up to its
\* await: the call of detectFacesReal runs up to its own await (part_002,
\* lines 186-197) or returns at its line 186.
Loop(l) ==
  IF ~mounted THEN [l EXCEPT !.pc = "done"]                       \* line 64
  ELSE IF ~l.isProcessing                                         \* line 77
       THEN [l EXCEPT !.pc = "detecting", !.isProcessing = TRUE,
                      !.real = ~Refused(video'.live /\ ~video'.paused),
                      !.demo = isDemographicsLoaded]
       ELSE [l EXCEPT !.pc = "scheduled"]                         \* line 107

\* The loadedmetadata event of the stream: the handler of lines 52-55 plays
\* the video and calls loop.
MetadataLoaded ==
  /\ metaPending
  /\ video.live
  /\ metaPending' = FALSE
  /\ video' = IF mounted THEN [video EXCEPT !.paused = FALSE] ELSE video
  /\ loops' = [loops EXCEPT ![handler] = Loop(@)]
  /\ UNCHANGED <<mounted, handler, frame>>
  /\ UNCHANGED <<loaderVars, matcherVars, storeVars, detectVars, recogVars>>

\* The browser runs the pending frame callback of run k (line 107).
Tick(k) ==
  /\ loops[k].pc = "scheduled"
  /\ video' = video
  /\ loops' = [loops EXCEPT ![k] = Loop(@)]
  /\ UNCHANGED <<mounted, handler, metaPending, frame>>
  /\ UNCHANGED <<loaderVars, matcherVars, storeVars, detectVars, recogVars>>

\* Line 88: the detection is worth a log.
Loggable(det) == det.identified \/ det.confidence > LogConfidence

\* Lines 89-95.
NewLog(det) == [personName |-> det.name, confidence |-> det.confidence,
                isUnknown |-> ~det.identified]

\* Lines 82-100 for the results rs of run k: setDetections(rs), which React
\* ignores for a component that is unmounted, and one onLogEntry call for
\* every result that line 88 lets pass.
Published(k, rs) ==
  LET kept == SelectSeq(rs, Loggable)
  IN [run |-> k, stopped |-> loops[k].stopped, shown |-> mounted,
      failed |-> FALSE, detections |-> rs,
      entries |-> [i \in DOMAIN kept |-> NewLog(kept[i])]]

\* The call of detectFacesReal of run k settles (part_002, lines 197-255) and
\* loop resumes from its await (lines 81-107): the results are published,
\* isProcessing is released and the next frame is requested.
DetectDone(k) ==
  /\ loops[k].pc = "detecting"
  /\ LET l == loops[k]
         task == [profiles |-> l.profiles, threshold |-> l.threshold,
                  demo |-> l.demo]
     IN /\ IF ~l.real
           THEN /\ Returned(task, faceMatcher, <<>>, <<>>)
                /\ UNCHANGED matcherVars
                /\ frame' = Published(k, results')
           ELSE \/ /\ \E n \in FaceCounts : \E probes \in [1..n -> Coords] :
                        Classify(task, n, probes)
                   /\ frame' = Published(k, results')
                \/ /\ Thrown(task)
                   /\ frame' = [Published(k, results') EXCEPT !.failed = TRUE]
  /\ loops' = [loops EXCEPT ![k].pc = "scheduled", ![k].isProcessing = FALSE,
                            ![k].real = FALSE]
  /\ UNCHANGED <<mounted, video, handler, metaPending, tasks, refused>>
  /\ UNCHANGED <<loaderVars, storeVars, recogVars>>

\* deleteProfile(id) while LiveMonitor is mounted: setProfiles gives the
\* component a new profiles prop, a dependency of line 117, so React runs the
\* cleanup of the previous run and then the effect with the new collection.
ProfilesChanged(id, th) ==
  /\ mounted
  /\ Len(loops) < MaxLoops
  /\ profiles' = SelectSeq(profiles, LAMBDA p : p.id # id)
  /\ op' = Mutation("deleteProfile", id, 0)
  /\ LET cleaned == IF Active(loops) = {} THEN loops
                    ELSE CleanedUp(loops, Len(loops))
     IN loops' = Append(cleaned, NewLoop(profiles', th))
  /\ video' = IF Active(loops) = {} THEN video ELSE StoppedStream(video)
  /\ UNCHANGED <<mounted, handler, metaPending, frame, nextId>>
  /\ UNCHANGED <<loaderVars, matcherVars, logVars, detectVars, recogVars>>

NextMonitor ==
  \/ \E th \in Settings : RunEffect(th)
  \/ Unmount
  \/ \E k \in DOMAIN loops : ModelsLoaded(k)
  \/ \E k \in DOMAIN loops, granted \in BOOLEAN : CameraAnswered(k, granted)
  \/ MetadataLoaded
  \/ \E k \in DOMAIN loops : Tick(k)
  \/ \E k \in DOMAIN loops : DetectDone(k)

\* ------------------------------------------------------------------------
\* LiveRecognition (src/components/LiveRecognition.tsx)
\* ------------------------------------------------------------------------
\* performRecognition (lines 61-106) as the closure of a render in which
\* isProcessing had the value `seen`, up to its first await (line 70): the
\* new value of scans and whether the guard of line 62 was passed.  getFrame
\* (lines 49-59) gives a frame while the component is mounted.
Begin(seen) ==
  IF seen \/ ~recognition.mounted \/ Len(scans) >= MaxScans
  THEN [scans |-> scans, passed |-> FALSE]
  ELSE [scans |-> Append(scans, "delay"), passed |-> TRUE]

\* A click on the scan button (lines 195-198).  React has rendered the
\* component since the last change of isProcessing, so the button is
\* disabled, and the closure of onClick sees isProcessing, as it is now.
ManualScan ==
  /\ recognition.mounted
  /\ ~recognition.isProcessing
  /\ Len(scans) < MaxScans
  /\ LET b == Begin(recognition.isProcessing)
     IN /\ scans' = b.scans
        /\ recognition' = [recognition EXCEPT !.isProcessing = @ \/ b.passed]
  /\ UNCHANGED <<loaderVars, matcherVars, storeVars, detectVars, monitorVars>>

\* A click on the auto button: toggleAuto (lines 108-118) of the last render.
ToggleAuto ==
  /\ recognition.mounted
  /\ IF recognition.autoMode
     THEN /\ recognition' = [recognition EXCEPT !.autoMode = FALSE, !.timer = FALSE]
          /\ UNCHANGED scans
     ELSE LET b == Begin(recognition.isProcessing)
          IN /\ scans' = b.scans
             /\ recognition' = [recognition EXCEPT
                                  !.autoMode = TRUE,
                                  !.timer = TRUE,
                                  !.closure = recognition.isProcessing,
                                  !.isProcessing = @ \/ b.passed]
  /\ UNCHANGED <<loaderVars, matcherVars, storeVars, detectVars, monitorVars>>

\* The interval of line 116 fires: it calls the performRecognition that
\* toggleAuto passed to setInterval, the closure of the render toggleAuto
\* belonged to.
IntervalTick ==
  /\ recognition.timer
  /\ Len(scans) < MaxScans
  /\ LET b == Begin(recognition.closure)
     IN /\ scans' = b.scans
        /\ recognition' = [recognition EXCEPT !.isProcessing = @ \/ b.passed]
  /\ UNCHANGED <<loaderVars, matcherVars, storeVars, detectVars, monitorVars>>

\* The delay of line 70 of scan i is over: the scan calls detectFacesReal
\* (lines 74-80) and is suspended there.
DelayOver(i) ==
  /\ scans[i] = "delay"
  /\ scans' = [scans EXCEPT ![i] = "detecting"]
  /\ UNCHANGED recognition
  /\ UNCHANGED <<loaderVars, matcherVars, storeVars, detectVars, monitorVars>>

\* The call of detectFacesReal of scan i settles: lines 82-105, which end
\* with setIsProcessing(false).
ScanDone(i) ==
  /\ scans[i] = "detecting"
  /\ scans' = [scans EXCEPT ![i] = "done"]
  /\ recognition' = [recognition EXCEPT !.isProcessing = FALSE]
  /\ UNCHANGED <<loaderVars, matcherVars, storeVars, detectVars, monitorVars>>

\* The component unmounts: the cleanup of lines 41-46 clears the interval.
Leave ==
  /\ recognition.mounted
  /\ recognition' = [recognition EXCEPT !.mounted = FALSE, !.timer = FALSE]
  /\ UNCHANGED scans
  /\ UNCHANGED <<loaderVars, matcherVars, storeVars, detectVars, monitorVars>>

NextRecognition ==
  \/ ManualScan
  \/ ToggleAuto
  \/ IntervalTick
  \/ \E i \in DOMAIN scans : DelayOver(i)
  \/ \E i \in DOMAIN scans : ScanDone(i)
  \/ Leave

\* ------------------------------------------------------------------------
\* Specifications
\* ------------------------------------------------------------------------
NoResults == <<>>
NoCall == [kind |-> "none", id |-> 0, index |-> 0, len |-> -1, error |-> FALSE]
NoLog == [id |-> 0, personName |-> "", timestamp |-> 0]
\* LiveRecognition before its first event (lines 19-23): no scan runs, auto
\* mode is off, no interval is set.  closure is the value of isProcessing
\* that the performRecognition passed to setInterval closed over.
NoRecognition == [isProcessing |-> FALSE, autoMode |-> FALSE, timer |-> FALSE,
                  closure |-> FALSE, mounted |-> TRUE]

NoFrame == [run |-> 0, stopped |-> FALSE, shown |-> FALSE, failed |-> FALSE,
            detections |-> <<>>, entries |-> <<>>]

\* A collection with one enrolled identity.
Enrolled ==
  <<[id |-> 1, name |-> "A", images |-> <<<<0>>>>, descriptors |-> <<0>>]>>

\* Collections for the cache of the handle: two with one vector and other
\* contents, one of them with a profile without vectors, and one with two
\* vectors.
Shelves ==
  {Enrolled,
   <<[id |-> 1, name |-> "B", images |-> <<<<>>>>, descriptors |-> <<>>],
     [id |-> 2, name |-> "A", images |-> <<<<Scale + 1>>>>,
      descriptors |-> <<Scale + 1>>]>>,
   <<[id |-> 1, name |-> "B", images |-> <<<<0>>>>, descriptors |-> <<0>>],
     [id |-> 2, name |-> "A", images |-> <<<<>>>>, descriptors |-> <<>>],
     [id |-> 3, name |-> "A", images |-> <<<<Scale + 1>>>>,
      descriptors |-> <<Scale + 1>>]>>}

\* The collections overlapping calls are given: one and two identities.
Galleries ==
  {Enrolled,
   Append(Enrolled, [id |-> 2, name |-> "B", images |-> <<<<Scale + 1>>>>,
                     descriptors |-> <<Scale + 1>>])}

\* A history of n logs that n addLog calls leave: the names alternate, so no
\* call was suppressed; the ids tell the order of admission.
History(n) ==
  [i \in 1..n |-> [id |-> n + 1 - i,
                   personName |-> IF i % 2 = 1 THEN "A" ELSE "B",
                   timestamp |-> 0]]

\* The profile collections a caller can pass: the values of the store.
Descriptors == UNION {[1..k -> Coords] : k \in 0..MaxVectors}

\* The collections of at most np profiles with at most nv vectors together.
CollectionsOf(np, nv) ==
  LET ds == UNION {[1..k -> Coords] : k \in 0..nv}
      sized(n) == {ps \in [1..n -> [name : Names, descriptors : ds]] :
                     DescriptorCount(ps) <= nv}
  IN UNION {{[i \in 1..n |-> [id |-> i, name |-> ps[i].name,
                              images |-> [k \in DOMAIN ps[i].descriptors |->
                                            <<ps[i].descriptors[k]>>],
                              descriptors |-> ps[i].descriptors]] : ps \in sized(n)}
            : n \in 0..np}

Collections == CollectionsOf(MaxProfiles, MaxVectors)

\* Collections of one more profile and one more vector: two identities can
\* tie, and an identity can have two samples.
WideCollections == CollectionsOf(MaxProfiles + 1, MaxVectors + 1)

Init ==
  /\ faceapi \in BOOLEAN
  /\ isCriticalModelsLoaded = FALSE
  /\ isDemographicsLoaded = FALSE
  /\ faceMatcher = NoMatcher
  /\ lastDescriptorCount = -1
  /\ loadingPromise = NoPromise
  /\ acqs = <<>>
  /\ demos = <<>>
  /\ calls = <<>>
  /\ lastWarning = "none"
  /\ extracts = <<>>
  /\ profiles = <<>>
  /\ nextId = 0
  /\ op = NoCall
  /\ logs = <<>>
  /\ events = 0
  /\ event = NoLog
  /\ tasks = <<>>
  /\ refused = FALSE
  /\ results = NoResults
  /\ loops = <<>>
  /\ mounted = TRUE
  /\ video = [live |-> FALSE, paused |-> TRUE]
  /\ handler = 0
  /\ metaPending = FALSE
  /\ frame = NoFrame
  /\ recognition = NoRecognition
  /\ scans = <<>>

\* The loader after its first source has answered and the optional tier has
\* loaded: the state the matching engine works in.
InitReady ==
  /\ faceapi = TRUE
  /\ isCriticalModelsLoaded = TRUE
  /\ demos = <<[src |-> 1, state |-> "ok"]>>
  /\ isDemographicsLoaded = TRUE
  /\ faceMatcher = NoMatcher
  /\ lastDescriptorCount = -1
  /\ loadingPromise = 1
  /\ acqs = <<[attempts |-> <<[src |-> 1, out |-> "ok"]>>, status |-> "true"]>>
  /\ calls = <<[by |-> "app", kind |-> "shared", val |-> FALSE, id |-> 1]>>
  /\ lastWarning = "none"
  /\ extracts = <<>>
  /\ profiles = <<>>
  /\ nextId = 0
  /\ op = NoCall
  /\ logs = <<>>
  /\ events = 0
  /\ event = NoLog
  /\ tasks = <<>>
  /\ refused = FALSE
  /\ results = NoResults
  /\ loops = <<>>
  /\ mounted = TRUE
  /\ video = [live |-> FALSE, paused |-> TRUE]
  /\ handler = 0
  /\ metaPending = FALSE
  /\ frame = NoFrame
  /\ recognition = NoRecognition
  /\ scans = <<>>

NextLoader ==
  \/ LoadModels
  \/ \E i \in DOMAIN acqs : CriticalLoaded(i)
  \/ \E i \in DOMAIN acqs : CriticalRejected(i)
  \/ \E i \in DOMAIN acqs : TimeoutFires(i)
  \/ \E j \in DOMAIN demos : DemographicsLoaded(j)
  \/ \E j \in DOMAIN demos : DemographicsFailed(j)
  \/ ExtractFaceDescriptor
  \/ \E e \in DOMAIN extracts : ExtractResume(e)

\* Classification calls on the current store.
NextDetect ==
  \/ \E th \in Thresholds, videoOk \in BOOLEAN : DetectStart(profiles, th, videoOk)
  \/ \E k \in DOMAIN tasks : DetectFinish(k)
  \/ \E k \in DOMAIN tasks : DetectFails(k)

NextStore ==
  \/ \E name \in Names : AddProfile(name, <<>>, <<>>)
  \/ \E name \in Names, d \in Coords : AddProfile(name, <<d>>, <<d>>)
  \/ \E id \in 1..MaxIds : DeleteProfile(id)
  \/ \E id \in 1..MaxIds, d \in Coords : AddSampleToProfile(id, <<d>>, d)
  \/ \E id \in 1..MaxIds, index \in -1..MaxSamples : RemoveSampleFromProfile(id, index)

NextLog == \E name \in Names, time \in Times : AddLog(name, time)

\* Whole classification calls on the current store.
NextFrame ==
  \E th \in Thresholds, videoOk \in BOOLEAN : DetectFacesReal(profiles, th, videoOk)

NextLate ==
  \E i \in DOMAIN acqs : \E k \in DOMAIN acqs[i].attempts : LateAnswer(i, k)

Next ==
  \/ NextLoader \/ NextDetect \/ NextFrame \/ NextStore \/ NextLog \/ NextLate
  \/ NextMonitor \/ NextRecognition

Spec == Init /\ [][Next]_vars

\* The loader, with classification calls while the store is still empty.
NextLoading == NextLoader \/ NextFrame

SpecLoader == Init /\ [][NextLoading]_vars

\* loadModels calls with sources that answer, reject, answer late or never:
\* the timer of every attempt that stays pending fires (setTimeout, line 38).
NextTimeout ==
  \/ LoadModels
  \/ \E i \in DOMAIN acqs : CriticalLoaded(i)
  \/ \E i \in DOMAIN acqs : CriticalRejected(i)
  \/ \E i \in DOMAIN acqs : TimeoutFires(i)
  \/ \E j \in DOMAIN demos : DemographicsLoaded(j)
  \/ \E j \in DOMAIN demos : DemographicsFailed(j)
  \/ NextLate

SpecTimeout ==
  /\ Init
  /\ [][NextTimeout]_vars
  /\ \A i \in 1..MaxCalls : WF_vars(TimeoutFires(i))

\* The matching engine once the critical tier is ready: classification calls
\* with any collection the store can hold, any threshold and any probes.
NextMatch ==
  \E ps \in Collections, th \in Thresholds : DetectFacesReal(ps, th, TRUE)

SpecMatch == InitReady /\ [][NextMatch]_vars

\* The recognition history, from the empty history or from one that earlier
\* addLog calls have filled up to one entry below the cap or up to the cap.
InitLog ==
  /\ faceapi = TRUE
  /\ isCriticalModelsLoaded = FALSE
  /\ isDemographicsLoaded = FALSE
  /\ faceMatcher = NoMatcher
  /\ lastDescriptorCount = -1
  /\ loadingPromise = NoPromise
  /\ acqs = <<>>
  /\ demos = <<>>
  /\ calls = <<>>
  /\ lastWarning = "none"
  /\ extracts = <<>>
  /\ profiles = <<>>
  /\ nextId = 0
  /\ op = NoCall
  /\ logs \in {History(0), History(LogCap - 1), History(LogCap)}
  /\ events = 0
  /\ event = NoLog
  /\ tasks = <<>>
  /\ refused = FALSE
  /\ results = NoResults
  /\ loops = <<>>
  /\ mounted = TRUE
  /\ video = [live |-> FALSE, paused |-> TRUE]
  /\ handler = 0
  /\ metaPending = FALSE
  /\ frame = NoFrame
  /\ recognition = NoRecognition
  /\ scans = <<>>

SpecLog == InitLog /\ [][NextLog]_vars

\* The profile store on its own.
SpecStore == Init /\ [][NextStore]_vars

\* The images of samples that gave the descriptors ds.
Pictures(ds) == [k \in DOMAIN ds |-> <<ds[k]>>]

\* What a profile of the store can hold: the samples of a profile registered
\* with a descriptor, and those of a profile registered without one, whose
\* first image has no descriptor.
Albums ==
  LET vectors(n) == UNION {[1..k -> Coords] : k \in 0..n}
  IN {[images |-> Pictures(ds), descriptors |-> ds] : ds \in vectors(MaxSamples)}
     \cup {[images |-> <<<<>>>> \o Pictures(ds), descriptors |-> ds]
            : ds \in vectors(MaxSamples - 1)}

\* The ids of S in the order they were handed out.
Registered(S) ==
  [i \in 1..Cardinality(S) |->
     CHOOSE e \in S : Cardinality({x \in S : x <= e}) = i]

\* The sets of ids the store can hold at a time.
Rosters == {T \in SUBSET (1..MaxIds) : Cardinality(T) <= MaxStored}

\* A value of the profile collection that registrations, added samples and
\* deletions leave: the profiles with the ids S in the order of their ids,
\* the i-th of them with the samples al[i].
Store(S, al) ==
  LET ids == Registered(S)
  IN [i \in DOMAIN ids |->
        [id |-> ids[i],
         name |-> IF ids[i] % 2 = 1 THEN "A" ELSE "B",
         images |-> al[i].images,
         descriptors |-> al[i].descriptors]]

\* The store holds one of these values and no mutation was called on it yet.
InitUpdater ==
  /\ faceapi = FALSE
  /\ isCriticalModelsLoaded = FALSE
  /\ isDemographicsLoaded = FALSE
  /\ faceMatcher = NoMatcher
  /\ lastDescriptorCount = -1
  /\ loadingPromise = NoPromise
  /\ acqs = <<>>
  /\ demos = <<>>
  /\ calls = <<>>
  /\ lastWarning = "none"
  /\ extracts = <<>>
  /\ \E S \in Rosters : \E al \in [1..Cardinality(S) -> Albums] :
       profiles = Store(S, al)
  /\ nextId = IF profiles = <<>> THEN 0 ELSE Last(profiles).id
  /\ op = NoCall
  /\ logs = <<>>
  /\ events = 0
  /\ event = NoLog
  /\ tasks = <<>>
  /\ refused = FALSE
  /\ results = NoResults
  /\ loops = <<>>
  /\ mounted = TRUE
  /\ video = [live |-> FALSE, paused |-> TRUE]
  /\ handler = 0
  /\ metaPending = FALSE
  /\ frame = NoFrame
  /\ recognition = NoRecognition
  /\ scans = <<>>

\* One call of a mutation on such a value: the updaters passed to
\* setProfiles depend on nothing but the previous value.
NextUpdater == op = NoCall /\ NextStore

SpecUpdater == InitUpdater /\ [][NextUpdater]_vars

\* LiveMonitor mounts after the loader has settled: without face-api.js,
\* or with both tiers ready and one identity enrolled.
InitMonitor ==
  /\ faceapi \in BOOLEAN
  /\ isCriticalModelsLoaded = faceapi
  /\ isDemographicsLoaded = faceapi
  /\ demos = IF faceapi THEN <<[src |-> 1, state |-> "ok"]>> ELSE <<>>
  /\ faceMatcher = NoMatcher
  /\ lastDescriptorCount = -1
  /\ loadingPromise = IF faceapi THEN 1 ELSE NoPromise
  /\ acqs = IF faceapi
            THEN <<[attempts |-> <<[src |-> 1, out |-> "ok"]>>, status |-> "true"]>>
            ELSE <<>>
  /\ calls = IF faceapi
             THEN <<[by |-> "app", kind |-> "shared", val |-> FALSE, id |-> 1]>>
             ELSE <<[by |-> "app", kind |-> "value", val |-> FALSE, id |-> NoPromise]>>
  /\ lastWarning = "none"
  /\ extracts = <<>>
  /\ profiles = Enrolled
  /\ nextId = 1
  /\ op = NoCall
  /\ logs = <<>>
  /\ events = 0
  /\ event = NoLog
  /\ tasks = <<>>
  /\ refused = FALSE
  /\ results = NoResults
  /\ loops = <<>>
  /\ mounted = TRUE
  /\ video = [live |-> FALSE, paused |-> TRUE]
  /\ handler = 0
  /\ metaPending = FALSE
  /\ frame = NoFrame
  /\ recognition = NoRecognition
  /\ scans = <<>>

SpecMonitor == InitMonitor /\ [][NextMonitor]_vars

\* The thresholds LiveMonitor is given here: 0, which no distance is below,
\* and one above the distance of two equal descriptors.
Sliders == {0, Scale + 1}

\* LiveMonitor while the enrolled identity can be deleted.
NextGallery ==
  \/ \E th \in Sliders : RunEffect(th)
  \/ \E id \in 1..MaxIds, th \in Sliders : ProfilesChanged(id, th)
  \/ Unmount
  \/ \E k \in DOMAIN loops : ModelsLoaded(k)
  \/ \E k \in DOMAIN loops, granted \in BOOLEAN : CameraAnswered(k, granted)
  \/ MetadataLoaded
  \/ \E k \in DOMAIN loops : Tick(k)
  \/ \E k \in DOMAIN loops : DetectDone(k)

SpecGallery == InitMonitor /\ [][NextGallery]_vars

\* Overlapping detectFacesReal calls of several callers, with up to
\* MaxFaces faces in a frame.
NextOverlap ==
  \/ \E ps \in Galleries, th \in Settings : DetectStart(ps, th, TRUE)
  \/ \E k \in DOMAIN tasks, n \in 0..MaxFaces : DetectResolves(k, n)
  \/ \E k \in DOMAIN tasks : DetectFails(k)

SpecOverlap == InitReady /\ [][NextOverlap]_vars

\* The critical tier has just loaded from the first source and the optional
\* tier is being fetched: the state CriticalLoaded(1) leaves.
InitCritical ==
  /\ faceapi = TRUE
  /\ isCriticalModelsLoaded = TRUE
  /\ demos = <<[src |-> 1, state |-> "pending"]>>
  /\ isDemographicsLoaded = FALSE
  /\ faceMatcher = NoMatcher
  /\ lastDescriptorCount = -1
  /\ loadingPromise = 1
  /\ acqs = <<[attempts |-> <<[src |-> 1, out |-> "ok"]>>, status |-> "true"]>>
  /\ calls = <<[by |-> "app", kind |-> "shared", val |-> FALSE, id |-> 1]>>
  /\ lastWarning = "none"
  /\ extracts = <<>>
  /\ profiles = Enrolled
  /\ nextId = 1
  /\ op = NoCall
  /\ logs = <<>>
  /\ events = 0
  /\ event = NoLog
  /\ tasks = <<>>
  /\ refused = FALSE
  /\ results = NoResults
  /\ loops = <<>>
  /\ mounted = TRUE
  /\ video = [live |-> FALSE, paused |-> TRUE]
  /\ handler = 0
  /\ metaPending = FALSE
  /\ frame = NoFrame
  /\ recognition = NoRecognition
  /\ scans = <<>>

\* Classification calls while the optional tier settles.
NextDemographics ==
  \/ \E j \in DOMAIN demos : DemographicsLoaded(j)
  \/ \E j \in DOMAIN demos : DemographicsFailed(j)
  \/ \E th \in Settings : DetectStart(profiles, th, TRUE)
  \/ \E k \in DOMAIN tasks : DetectFinish(k)
  \/ \E k \in DOMAIN tasks : DetectFails(k)

SpecDemographics == InitCritical /\ [][NextDemographics]_vars

\* Calls that hit and miss the cache of the handle.
NextCache ==
  \/ \E ps \in Shelves, th \in Settings : DetectStart(ps, th, TRUE)
  \/ \E k \in DOMAIN tasks : DetectFinish(k)
  \/ \E k \in DOMAIN tasks : DetectFails(k)

SpecCache == InitReady /\ [][NextCache]_vars

\* LiveRecognition alone, from the state before its first event.
SpecRecognition == Init /\ [][NextRecognition]_vars

\* The same with the wider collections.
NextWide ==
  \E ps \in WideCollections, th \in Thresholds : DetectFacesReal(ps, th, TRUE)

SpecWide == InitReady /\ [][NextWide]_vars

\* ------------------------------------------------------------------------
\* Properties of loadModels
\* ------------------------------------------------------------------------
InFlight(i) == i \in DOMAIN acqs /\ acqs[i].status = "pending"

\* A loadModels call returns in this step.
Called == Len(calls') = Len(calls) + 1

\* C1: while the critical tier is not ready and an acquisition is in flight,
\* every loadModels call returns the promise of that acquisition and starts no
\* other, so that all these callers see the one resolution of that promise;
\* at most one acquisition is in flight; an acquisition attempts each source
\* at most once.
C1_InFlightDedup ==
  /\ [](/\ Cardinality({i \in DOMAIN acqs : InFlight(i)}) <= 1
        /\ \A i \in DOMAIN acqs : \A j, k \in DOMAIN acqs[i].attempts :
             acqs[i].attempts[j].src = acqs[i].attempts[k].src => j = k)
  /\ [][\A i \in DOMAIN acqs :
          (InFlight(i) /\ ~isCriticalModelsLoaded /\ Called)
          => /\ acqs' = acqs
             /\ Last(calls').kind = "shared"
             /\ Last(calls').id = i]_vars

\* Two calls hold the promise of one acquisition, which failed on source 1 and
\* resolved true on a later source.
C1_Witness ==
  \E c, d \in DOMAIN calls :
    /\ c # d
    /\ calls[c].kind = "shared" /\ calls[d].kind = "shared"
    /\ calls[c].id = calls[d].id
    /\ acqs[calls[c].id].status = "true"
    /\ Len(acqs[calls[c].id].attempts) >= 2

\* C2: with the vision library present, whenever the critical tier is not
\* ready and no acquisition is running, no promise is retained in
\* loadingPromise, so that the next loadModels call starts a fresh acquisition
\* from source 1 instead of answering the false of a finished one.
C2_NoLockout ==
  (faceapi /\ ~isCriticalModelsLoaded /\ \A i \in DOMAIN acqs : ~InFlight(i))
  => loadingPromise = NoPromise

\* C3: an acquisition attempts the sources in list order, source k + 1 only
\* after the attempt on source k has failed; a successful attempt is the last
\* one and makes the acquisition resolve true, whatever failed before it.
C3_ListOrder ==
  \A i \in DOMAIN acqs :
    LET at == acqs[i].attempts IN
    /\ Len(at) <= NumSources
    /\ \A k \in DOMAIN at :
         /\ at[k].src = k
         /\ k < Len(at) => at[k].out = "failed"
    /\ (at # <<>> /\ Last(at).out = "ok") => acqs[i].status = "true"
    /\ acqs[i].status = "true" => (at # <<>> /\ Last(at).out = "ok")

\* An acquisition resolved true on its last source after all others failed.
C3_Witness ==
  \E i \in DOMAIN acqs :
    /\ acqs[i].status = "true"
    /\ Len(acqs[i].attempts) = NumSources
    /\ Last(acqs[i].attempts).out = "ok"

\* C4: once the critical tier is ready, a loadModels call returns a promise
\* already resolved to true, attempts no source, and leaves both readiness
\* flags, the matcher handle and its recorded vector count as they were.
C4_ReadyIdempotent ==
  [][(isCriticalModelsLoaded /\ Called)
     => /\ Last(calls').kind = "value"
        /\ Last(calls').val = TRUE
        /\ acqs' = acqs
        /\ demos' = demos
        /\ UNCHANGED <<isCriticalModelsLoaded, isDemographicsLoaded,
                       faceMatcher, lastDescriptorCount>>]_vars

\* A call was answered from the ready state, and the matcher has been updated.
C4_Witness ==
  /\ \E c \in DOMAIN calls : calls[c].kind = "value" /\ calls[c].val = TRUE
  /\ lastDescriptorCount = 0

\* A run of loadDemographicsBackground fails in this step.
OptionalFails ==
  \E j \in DOMAIN demos :
    /\ j \in DOMAIN demos'
    /\ demos[j].state = "pending"
    /\ demos'[j].state = "failed"

\* C5: an acquisition whose attempt succeeded has resolved true, whatever the
\* state of the optional load it started (pending, loaded or failed), and
\* stays resolved true; a failure of the optional load leaves
\* isDemographicsLoaded false and changes nothing else of the loader.
C5_OptionalNonBlocking ==
  /\ [](\A i \in DOMAIN acqs :
          (acqs[i].attempts # <<>> /\ Last(acqs[i].attempts).out = "ok")
          => /\ acqs[i].status = "true"
             /\ isCriticalModelsLoaded
             /\ \E j \in DOMAIN demos :
                  demos[j].src = Last(acqs[i].attempts).src)
  /\ [][\A i \in DOMAIN acqs :
          acqs[i].status = "true" => acqs'[i].status = "true"]_vars
  /\ [][OptionalFails
        => /\ isDemographicsLoaded' = FALSE
           /\ UNCHANGED <<faceapi, isCriticalModelsLoaded, loadingPromise,
                          acqs, calls>>]_vars

\* A caller's promise has resolved true while the optional load is pending.
C5_Witness ==
  \E c \in DOMAIN calls :
    /\ calls[c].kind = "shared"
    /\ Resolution(calls[c]) = "true"
    /\ \E j \in DOMAIN demos : demos[j].state = "pending"
    /\ ~isDemographicsLoaded

\* C6: once isCriticalModelsLoaded is true, no step makes it false.
C6_CriticalMonotone ==
  [][isCriticalModelsLoaded => isCriticalModelsLoaded']_vars

\* The critical tier is ready after the optional load has failed, a later
\* loadModels call and a classification call.
C6_Witness ==
  /\ isCriticalModelsLoaded
  /\ \E j \in DOMAIN demos : demos[j].state = "failed"
  /\ \E c \in DOMAIN calls : calls[c].kind = "value" /\ calls[c].val = TRUE
  /\ lastDescriptorCount # -1

\* C7: no promise returned by loadModels is rejected: each is pending or
\* resolved to a boolean; it resolves false only when the vision library is
\* absent or every source has been attempted and has failed, and true only
\* when the critical tier is ready.
C7_NeverRejects ==
  /\ \A i \in DOMAIN acqs :
       /\ acqs[i].status \in {"pending", "true", "false"}
       /\ acqs[i].status = "false"
          => /\ Len(acqs[i].attempts) = NumSources
             /\ \A k \in DOMAIN acqs[i].attempts :
                  acqs[i].attempts[k].out = "failed"
  /\ \A c \in DOMAIN calls :
       /\ Resolution(calls[c]) \in {"pending", "true", "false"}
       /\ Resolution(calls[c]) = "true" => isCriticalModelsLoaded
       /\ (calls[c].kind = "value" /\ ~calls[c].val) => ~faceapi

\* A promise resolved false after a rejection or a timeout of every source.
C7_Witness ==
  \E c \in DOMAIN calls :
    /\ calls[c].kind = "shared"
    /\ Resolution(calls[c]) = "false"
    /\ lastWarning \in {"reject", "timeout"}

\* ------------------------------------------------------------------------
\* Properties of detectFacesReal
\* ------------------------------------------------------------------------
\* C8: every result for a probe equal to a vector that a profile of the
\* collection passed to the call holds has identified = true and confidence
\* 100, whatever calls came before (every threshold of the model is above 0).
C8_StoredVectorIdentified ==
  \A i \in DOMAIN results :
    results[i].held => (results[i].identified /\ results[i].confidence = 100)

\* C9: every result for a probe that no vector of the matcher handle is
\* nearer to than the threshold passed to the call has identified = false and
\* the name "Unknown", also when the handle was built with another threshold.
C9_FarIsUnknown ==
  \A i \in DOMAIN results :
    results[i].far => (~results[i].identified /\ results[i].name = "Unknown")

\* A probe at a distance not below the threshold passed, classified with a
\* handle that an earlier call built under the largest threshold.
C9_Witness ==
  \E i \in DOMAIN results :
    /\ results[i].far
    /\ results[i].stale
    /\ ~faceMatcher.null
    /\ faceMatcher.threshold = Scale + 2

\* C10: the confidence of every result is an integer from 0 to 100.
C10_ConfidenceRange ==
  \A i \in DOMAIN results : results[i].confidence \in 0..100

\* A probe rejected by a handle all of whose vectors are at a distance above
\* 1.0 from it: its confidence is clipped to 0.
C10_Witness ==
  \E i \in DOMAIN results :
    /\ ~faceMatcher.null
    /\ results[i].far
    /\ ~results[i].identified
    /\ results[i].confidence = 0

\* The labeled vectors of the handle m in the order of its labels and, within
\* a label, of its vectors, each with its distance from q.
Flatten(m, q) ==
  LET RECURSIVE flat(_)
      flat(lds) ==
        IF lds = <<>> THEN <<>>
        ELSE [j \in DOMAIN Head(lds).descriptors |->
                [label |-> Head(lds).label,
                 d |-> Distance(Head(lds).descriptors[j], q)]]
             \o flat(Tail(lds))
  IN flat(m.labeled)

\* The labeled vector of m at minimum distance from q, the first one in the
\* order of Flatten on a tie.
NearestVector(m, q) ==
  LET f == Flatten(m, q)
      k == CHOOSE k \in DOMAIN f :
             /\ \A j \in DOMAIN f : f[k].d <= f[j].d
             /\ \A j \in 1..(k - 1) : f[j].d > f[k].d
  IN f[k]

\* C11: every result computed with a handle is the two-branch result of the
\* nearest distance d and the threshold passed: below the threshold
\* identified, the nearest label and floor(max(0, 1 - d/threshold) * 100),
\* otherwise not identified, "Unknown" and floor(max(0, 1 - min(1, d)) * 100).
C11_TwoBranch ==
  \A i \in DOMAIN results :
    ~faceMatcher.null
    => LET n == NearestVector(faceMatcher, results[i].probe)
           th == results[i].threshold
       IN IF n.d < th
          THEN /\ results[i].identified
               /\ results[i].name = n.label
               /\ results[i].confidence = (Max(0, th - n.d) * 100) \div th
          ELSE /\ ~results[i].identified
               /\ results[i].name = "Unknown"
               /\ results[i].confidence
                    = (Max(0, Scale - Min(Scale, n.d)) * 100) \div Scale

\* C12: every result of a call whose collection holds no vector was computed
\* without a handle (faceMatcher is null after the call) and is not
\* identified, "Unknown", with confidence 0.
C12_NoVectorsNoMatcher ==
  \A i \in DOMAIN results :
    results[i].count = 0
    => /\ faceMatcher.null
       /\ ~results[i].identified
       /\ results[i].name = "Unknown"
       /\ results[i].confidence = 0

\* A call with a collection without vectors, made when a handle built by an
\* earlier call existed.
C12_Witness ==
  \E i \in DOMAIN results : results[i].count = 0 /\ results[i].had

\* C13: no result has identified = true with the name of an identity that, in
\* the collection passed to the call, has no vector or does not exist.
C13_NoAbsentIdentity ==
  \A i \in DOMAIN results :
    (results[i].identified /\ results[i].name \in Names) => results[i].listed

\* C14: a call of updateFaceMatcher leaves the handle and the recorded count
\* as they were when the vector count of the collection passed equals the
\* recorded count, whatever the contents and the threshold; otherwise it
\* leaves the handle built from that collection and records its vector count.
C14_RebuildIffCountDiffers ==
  [][results' # <<>>
     => IF results'[1].count = lastDescriptorCount
        THEN UNCHANGED <<faceMatcher, lastDescriptorCount>>
        ELSE /\ lastDescriptorCount' = results'[1].count
             /\ results'[1].fresh]_vars

\* A call whose collection had the recorded number of vectors but not the
\* vectors or the threshold of the handle, which was kept.
C14_Witness ==
  \E i \in DOMAIN results :
    /\ ~results[i].fresh
    /\ results[i].had
    /\ results[i].count = lastDescriptorCount

\* ------------------------------------------------------------------------
\* Properties of addLog
\* ------------------------------------------------------------------------
\* An addLog call is made in this step.
Logged == events' = events + 1

\* C15: addLog leaves the history unchanged if and only if the history is not
\* empty, the log has the personName of the head and its timestamp is less
\* than 1500 ms after that of the head; otherwise the log is the new head.
\* The head, and so the reference time, only changes when a log is admitted.
C15_Debounce ==
  [][Logged
     => IF /\ logs # <<>>
           /\ event'.personName = logs[1].personName
           /\ event'.timestamp - logs[1].timestamp < 1500
        THEN logs' = logs
        ELSE logs' # logs /\ logs'[1] = event']_vars

\* Two logs of one name, at 0 ms and 2250 ms, were admitted and a third one of
\* that name, 750 ms after the first, was suppressed between them.
C15_Witness ==
  /\ events = 3
  /\ Len(logs) = 2
  /\ logs[1].personName = logs[2].personName
  /\ logs[2].timestamp = 0 /\ logs[2].id = LogCap + 1
  /\ logs[1].timestamp = 2250 /\ logs[1].id = LogCap + 3

\* C16: the history never holds more than 200 logs and holds them newest
\* admitted first; an admitted log is put before the others, which keep their
\* order, and the oldest one is dropped if the history held 200 logs.
C16_BoundedNewestFirst ==
  /\ [](/\ Len(logs) <= 200
        /\ \A i \in 1..(Len(logs) - 1) : logs[i].id > logs[i + 1].id)
  /\ [][logs' # logs
        => /\ logs'[1] = event'
           /\ Tail(logs') = IF Len(logs) = 200 THEN SubSeq(logs, 1, 199)
                             ELSE logs]_vars

\* A log was admitted into a history of 200 logs.
C16_Witness ==
  /\ Len(logs) = 200
  /\ logs[1].id > LogCap
  /\ logs[200].id > 1

\* ------------------------------------------------------------------------
\* Properties of the profile collection
\* ------------------------------------------------------------------------
\* C17: a removeSampleFromProfile call on a profile with an index below 0 or
\* not below the number of descriptors of the profile raises an error and
\* leaves the collection as it was.
C17_OutOfRangeRejected ==
  [][(/\ op'.kind = "removeSampleFromProfile"
      /\ op'.len >= 0
      /\ (op'.index < 0 \/ op'.index >= op'.len))
     => (op'.error /\ profiles' = profiles)]_vars

\* C18: the match the handle gives for a probe is the labeled vector at
\* minimum distance from the probe among all vectors of all labels: its
\* distance is that minimum and its label the first one at that minimum.
C18_NearestVector ==
  \A i \in DOMAIN results :
    ~faceMatcher.null
    => LET n == NearestVector(faceMatcher, results[i].probe)
           b == MatchDescriptor(faceMatcher, results[i].probe)
       IN /\ b.distance.num = n.d * b.distance.den
          /\ b.label = n.label

\* ------------------------------------------------------------------------
\* Properties of LiveMonitor
\* ------------------------------------------------------------------------
\* The runs of the effect that have a detectFacesReal call in flight.
Detecting == {k \in DOMAIN loops : loops[k].pc = "detecting"}

\* C19: at most one detectFacesReal call of LiveMonitor is in flight at any
\* time, whatever the order of frames, completions and restarts of the loop.
C19_OneInFlight == Cardinality(Detecting) <= 1

\* A run whose loop has begun and that has no call in flight.
Idle(l) == l.pc \in {"scheduled", "cancelled", "done"}

\* C20: a run whose loop has begun and whose cleanup has been called starts
\* no further classification once it is idle, whether or not a classification
\* was in flight when the cleanup was called.
C20_NoTickAfterStop ==
  [][\A k \in DOMAIN loops :
       (loops[k].stopped /\ Idle(loops[k])) => loops'[k].pc # "detecting"]_vars

\* C21: the results of a call that settles after the cleanup of its run was
\* called are discarded: no detection of it is published through
\* setDetections and none is forwarded to onLogEntry.
C21_ResultDiscarded ==
  frame.stopped
  => /\ frame.entries = <<>>
     /\ (frame.shown => frame.detections = <<>>)

\* The extractFaceDescriptor calls whose loadModels call resolved false.
LoadFailed ==
  {e \in DOMAIN extracts :
     /\ extracts[e].call # 0
     /\ Resolution(calls[extracts[e].call]) = "false"}

\* C25: while the critical tier is not ready no call has detected, matched
\* or extracted anything: every detectFacesReal call so far returned the
\* empty list and left the handle and the recorded count as they were at
\* the start, no extractFaceDescriptor call has given a descriptor, and an
\* extractFaceDescriptor call whose load resolved false gives null.
C25_NothingBeforeReady ==
  /\ ~isCriticalModelsLoaded
     => /\ results = <<>>
        /\ faceMatcher = NoMatcher
        /\ lastDescriptorCount = -1
        /\ \A e \in DOMAIN extracts : extracts[e].res # "descriptor"
  /\ \A e \in LoadFailed : extracts[e].res \in {"wait", "null"}

\* With face-api.js present and the critical tier not ready, a
\* detectFacesReal call has returned at its guard and an
\* extractFaceDescriptor call has returned null after its load failed.
C25_Witness ==
  /\ faceapi
  /\ ~isCriticalModelsLoaded
  /\ refused
  /\ \E e \in LoadFailed : extracts[e].res = "null"

\* C24: all the faces of one frame are classified against one handle, the
\* one the call left in place, each from its own probe alone, also when
\* calls overlap: every result of the last frame is what the current handle
\* gives for its probe under the threshold of the call.
C24_OneHandlePerFrame ==
  \A i \in DOMAIN results :
    LET r == results[i]
        m == Match(faceMatcher, r.probe, r.threshold)
    IN /\ r.identified = m.identified
       /\ r.name = m.name
       /\ r.confidence = m.confidence

\* A frame with two faces was classified by a call that rebuilt the handle
\* while another call was suspended.
C24_Witness ==
  /\ Len(results) >= 2
  /\ tasks # <<>>
  /\ results[1].had
  /\ results[1].rebuilt
  /\ results[1].probe # results[2].probe

\* C26: a result carries age, gender and expressions only if the optional
\* tier was ready when its call built the detection task; a result without
\* them has the identification fields the handle gives for its probe.
C26_AttributesOnlyIfReadyAtStart ==
  \A i \in DOMAIN results :
    LET r == results[i]
        m == Match(faceMatcher, r.probe, r.threshold)
    IN /\ r.attributes => r.demo
       /\ ~r.demo
          => /\ ~r.attributes
             /\ r.identified = m.identified
             /\ r.name = m.name
             /\ r.confidence = m.confidence

\* The optional tier became ready while the frame was processed: the result
\* identifies the enrolled face and has no attributes.
C26_Witness ==
  /\ isDemographicsLoaded
  /\ results # <<>>
  /\ ~results[1].demo
  /\ ~results[1].attributes
  /\ results[1].identified

\* C27: the optional tier is ready only if the critical tier is, and every
\* acquisition of the optional tier was started with the source from which
\* an acquisition of the critical tier succeeded.
C27_OptionalImpliesCritical ==
  /\ isDemographicsLoaded => isCriticalModelsLoaded
  /\ \A j \in DOMAIN demos :
       \E i \in DOMAIN acqs :
         /\ acqs[i].status = "true"
         /\ Last(acqs[i].attempts).out = "ok"
         /\ Last(acqs[i].attempts).src = demos[j].src

\* Both tiers are ready and were loaded from a source after the first.
C27_Witness ==
  /\ isDemographicsLoaded
  /\ isCriticalModelsLoaded
  /\ \E j \in DOMAIN demos : demos[j].src > 1 /\ demos[j].state = "ok"

\* An attempt is marked as answered late in this step.
AnswersLate ==
  \E i \in DOMAIN acqs : \E k \in DOMAIN acqs[i].attempts :
    acqs[i].attempts[k].out # "late" /\ acqs'[i].attempts[k].out = "late"

\* C28: every loadModels call eventually resolves, true or false, whatever
\* the sources do; no acquisition makes more than NumSources attempts; and an
\* answer that arrives after its attempt has ended changes neither the flags
\* nor the outcome of any acquisition.
C28_LoadsTerminate ==
  /\ \A c \in 1..MaxCalls :
       (Len(calls) >= c)
         ~> (Len(calls) >= c /\ Resolution(calls[c]) \in {"true", "false"})
  /\ [](\A i \in DOMAIN acqs : Len(acqs[i].attempts) <= NumSources)
  /\ [][AnswersLate
        => /\ UNCHANGED flagVars
           /\ \A i \in DOMAIN acqs : acqs'[i].status = acqs[i].status]_vars

\* A call resolved false after NumSources attempts, the last one ended by
\* its timeout, and a source answered after its attempt had ended.
C28_Witness ==
  /\ lastWarning = "timeout"
  /\ ~isCriticalModelsLoaded
  /\ \E c \in DOMAIN calls :
       /\ calls[c].kind = "shared"
       /\ Resolution(calls[c]) = "false"
       /\ Len(acqs[calls[c].id].attempts) = NumSources
       /\ \E k \in 1..NumSources : acqs[calls[c].id].attempts[k].out = "late"

\* C29: the acquisition of the optional tier is started at most once, and
\* once it has failed the optional tier is not ready, whatever calls of
\* loadModels, extractFaceDescriptor and detectFacesReal follow.
C29_OptionalStartedOnce ==
  /\ Len(demos) <= 1
  /\ (\E j \in DOMAIN demos : demos[j].state = "failed") => ~isDemographicsLoaded

\* The optional tier has failed; loadModels was called with the critical
\* tier ready, extractFaceDescriptor gave a descriptor and detectFacesReal a
\* result.
C29_Witness ==
  /\ demos # <<>>
  /\ demos[1].state = "failed"
  /\ \E c \in DOMAIN calls : calls[c].kind = "value" /\ calls[c].val
  /\ \E e \in DOMAIN extracts : extracts[e].res = "descriptor"
  /\ results # <<>>
  /\ ~results[1].demo

\* The profiles of ps that have a vector, and the place of profile i among
\* them.
Vectored(ps) == {i \in DOMAIN ps : Len(ps[i].descriptors) > 0}
Place(ps, i) == Cardinality({j \in Vectored(ps) : j <= i})

\* The handle m holds exactly the profiles of ps that have a vector, in the
\* order of ps, under the threshold th; there is none if no profile has one.
Exactly(m, ps, th) ==
  IF Vectored(ps) = {} THEN m = NoMatcher
  ELSE /\ ~m.null
       /\ m.threshold = th
       /\ Len(m.labeled) = Cardinality(Vectored(ps))
       /\ \A i \in Vectored(ps) :
            m.labeled[Place(ps, i)] =
              [label |-> ps[i].name, descriptors |-> ps[i].descriptors]

\* Call k classifies the faces of its frame in this step.
Classifies(k) == tasks' = RemoveAt(tasks, k) /\ results' # <<>>

\* C30: when a call reaches updateFaceMatcher with a handle in place and a
\* collection whose number of vectors is the recorded count, the handle and
\* the count stay as they are, whatever the collection holds and whatever
\* the threshold; otherwise the new handle holds exactly the profiles of the
\* collection that have a vector, in order, and the count is recorded.
C30_HitKeepsMissRebuilds ==
  [][\A k \in DOMAIN tasks :
       Classifies(k)
       => LET ps == tasks[k].profiles
          IN IF DescriptorCount(ps) = lastDescriptorCount /\ ~faceMatcher.null
             THEN UNCHANGED matcherVars
             ELSE /\ Exactly(faceMatcher', ps, tasks[k].threshold)
                  /\ lastDescriptorCount' = DescriptorCount(ps)]_vars

\* A call hit the cache with a collection of other contents and another
\* threshold than the handle was built with.
C30_Witness ==
  /\ results # <<>>
  /\ results[1].had
  /\ ~results[1].rebuilt
  /\ ~results[1].fresh
  /\ results[1].stale
  /\ faceMatcher.labeled # <<>>
  /\ faceMatcher.labeled[1].label = "B"

\* The call of run k settles in this step.
Settles(k) == loops[k].pc = "detecting" /\ loops'[k].pc # "detecting"

\* C23: when the call of a run of LiveMonitor settles after a failure inside
\* detectFacesReal (in the detection, in the rebuild of the handle or in the
\* matching), the call returns the empty list, the loader flags are as they
\* were, isProcessing of the run is released and the next frame is requested,
\* so that a later tick classifies again.
C23_FailedFrameCaught ==
  [][\A k \in DOMAIN loops :
       (Settles(k) /\ frame'.failed)
       => /\ results' = <<>>
          /\ frame'.detections = <<>>
          /\ frame'.entries = <<>>
          /\ UNCHANGED flagVars
          /\ ~loops'[k].isProcessing
          /\ loops'[k].pc = "scheduled"]_vars

\* After a failed frame the run has a new call in flight that passed the
\* guard of detectFacesReal.
C23_Witness ==
  /\ frame.failed
  /\ frame.run \in DOMAIN loops
  /\ loops[frame.run].pc = "detecting"
  /\ loops[frame.run].real

\* ------------------------------------------------------------------------
\* Properties of LiveRecognition
\* ------------------------------------------------------------------------
\* The performRecognition calls that are past their guard and not complete.
Scanning == {i \in DOMAIN scans : scans[i] # "done"}

\* C22: at most one performRecognition call is past its isProcessing guard
\* at any time, for manual scans and for the ticks of auto mode.
C22_OneScan == Cardinality(Scanning) <= 1

\* ------------------------------------------------------------------------
\* Properties of the mutations of the profile collection
\* ------------------------------------------------------------------------
\* C31 as stated: every call of addProfile (with or without a descriptor),
\* addSampleToProfile, removeSampleFromProfile or deleteProfile changes the
\* number of descriptors summed over all profiles.
C31_EveryMutationChangesCount ==
  [][DescriptorCount(profiles') # DescriptorCount(profiles)]_vars

\* C31: every call of a mutation that changes what updateFaceMatcher builds
\* the handle from (the names and descriptors of the profiles that have a
\* descriptor) changes the number of descriptors summed over all profiles,
\* which is what updateFaceMatcher compares with lastDescriptorCount.
C31_StaleWhenVectorsChange ==
  [][LabeledDescriptors(profiles') # LabeledDescriptors(profiles)
     => DescriptorCount(profiles') # DescriptorCount(profiles)]_vars

\* A call has added a descriptor to a profile, removed one from it, or
\* deleted a profile that had one.
C31_Witness ==
  /\ op.kind \in {"addSampleToProfile", "removeSampleFromProfile", "deleteProfile"}
  /\ op.len >= 0
  /\ Samples(op.id) # op.len
  /\ (Samples(op.id) = -1 => op.len > 0)

\* The profile with the id in the collection ps.
ProfileOf(ps, id) == ps[CHOOSE i \in DOMAIN ps : ps[i].id = id]

\* The profiles of ps other than the one with the id, in their order.
Others(ps, id) ==
  LET keep == {i \in DOMAIN ps : ps[i].id # id}
  IN [k \in 1..Cardinality(keep) |->
        ps[CHOOSE i \in keep : Cardinality({j \in keep : j <= i}) = k]]

\* C32: the mutations append to and remove from ordered sequences, without
\* reordering and without deduplication: addSampleToProfile leaves the
\* descriptors and images the profile had, in their order, followed by one
\* new element each, also when an equal descriptor is already there;
\* removeSampleFromProfile with an index i from 0 to length - 1 removes
\* element i and keeps the others in their order; addProfile leaves the
\* profiles there were, in their order, followed by the new one;
\* deleteProfile leaves the profiles with another id, in their order.
C32_OrderedNoDedup ==
  [][/\ (op'.kind = "addSampleToProfile" /\ op'.len >= 0)
        => LET old == ProfileOf(profiles, op'.id)
               new == ProfileOf(profiles', op'.id)
           IN /\ \E d \in Coords : new.descriptors = Append(old.descriptors, d)
              /\ \E d \in Coords : new.images = Append(old.images, <<d>>)
     /\ (op'.kind = "removeSampleFromProfile" /\ op'.index \in 0..(op'.len - 1))
        => LET old == ProfileOf(profiles, op'.id)
               new == ProfileOf(profiles', op'.id)
           IN /\ new.descriptors = Without(old.descriptors, op'.index)
              /\ new.images = Without(old.images, op'.index)
     /\ op'.kind = "addProfile"
        => /\ Len(profiles') = Len(profiles) + 1
           /\ SubSeq(profiles', 1, Len(profiles)) = profiles
           /\ Last(profiles').id = op'.id
           /\ \A i \in DOMAIN profiles : profiles[i].id # op'.id
     /\ op'.kind = "deleteProfile"
        => /\ profiles' = Others(profiles, op'.id)
           /\ \A i \in DOMAIN profiles' : profiles'[i].id # op'.id]_vars

\* addSampleToProfile has added a descriptor equal to one the profile had, and
\* the profile has both.
C32_Witness ==
  /\ op.kind = "addSampleToProfile"
  /\ op.len >= 1
  /\ LET ds == ProfileOf(profiles, op.id).descriptors
     IN /\ Len(ds) = op.len + 1
        /\ \E k \in 1..op.len : ds[k] = Last(ds)

\* C33: every profile of the collection has as many images as descriptors,
\* and its i-th image is the image of the sample that gave its i-th
\* descriptor, so that the splice of removeSampleFromProfile at an index
\* takes a descriptor and the image of the same sample.
C33_ImagesPairDescriptors ==
  \A i \in DOMAIN profiles :
    /\ Len(profiles[i].images) = Len(profiles[i].descriptors)
    /\ profiles[i].images = Pictures(profiles[i].descriptors)

\* ------------------------------------------------------------------------
\* Properties of the history as a whole
\* ------------------------------------------------------------------------
\* C34: two adjacent logs of the history with the same personName have
\* timestamps at least 1500 ms apart, the newer minus the older, whatever
\* names and timestamps the addLog calls had, timestamps that go backwards
\* included.
C34_AdjacentSameNameApart ==
  \A i \in 1..(Len(logs) - 1) :
    logs[i].personName = logs[i + 1].personName
      => logs[i].timestamp - logs[i + 1].timestamp >= DebounceMs

\* Two logs of one name exactly a window apart are adjacent, and the last
\* call, with that name and a timestamp before that of the head, was
\* suppressed.
C34_Witness ==
  /\ Len(logs) >= 2
  /\ logs[1].personName = logs[2].personName
  /\ logs[1].timestamp - logs[2].timestamp = DebounceMs
  /\ event.personName = logs[1].personName
  /\ event.timestamp < logs[1].timestamp
  /\ event.id > logs[1].id

\* C35: a call of addSampleToProfile, removeSampleFromProfile or
\* deleteProfile leaves every profile with another id as it was and the
\* profiles in their order; with an id that no profile has, it leaves the
\* whole collection as it was.
C35_OnlyGivenProfile ==
  [][op'.kind \in {"addSampleToProfile", "removeSampleFromProfile", "deleteProfile"}
     => /\ Others(profiles', op'.id) = Others(profiles, op'.id)
        /\ op'.kind # "deleteProfile"
           => /\ Len(profiles') = Len(profiles)
              /\ \A i \in DOMAIN profiles :
                   /\ profiles'[i].id = profiles[i].id
                   /\ profiles'[i].name = profiles[i].name
        /\ op'.len = -1 => profiles' = profiles]_vars

\* A call has changed the samples of one of two profiles.
C35_Witness ==
  /\ op.kind \in {"addSampleToProfile", "removeSampleFromProfile"}
  /\ Len(profiles) >= 2
  /\ op.len >= 0
  /\ Samples(op.id) # op.len

\* ------------------------------------------------------------------------
\* Properties of the logging of LiveMonitor
\* ------------------------------------------------------------------------
\* The call of detectFacesReal of some run settles in this step.
Settled == \E k \in DOMAIN loops : loops[k].pc = "detecting" /\ loops'[k].pc # "detecting"

\* C36: the logs LiveMonitor passes to onLogEntry for the results of a call
\* are those of the results that are identified or have a confidence above
\* 50, each with isUnknown = not identified; and a call that settles while
\* no profile of the store has a descriptor leads to no log.
C36_LogsOnlyClearFaces ==
  [][Settled
     => /\ \A i \in DOMAIN frame'.entries :
             \E j \in DOMAIN frame'.detections :
               LET det == frame'.detections[j]
               IN /\ det.identified \/ det.confidence > 50
                  /\ frame'.entries[i].personName = det.name
                  /\ frame'.entries[i].confidence = det.confidence
                  /\ frame'.entries[i].isUnknown = ~det.identified
        /\ DescriptorCount(profiles) = 0 => frame'.entries = <<>>]_vars
====
